---- MODULE Spec2Model ----
(***************************************************************************)
(* Model of the auto-template-literals extension (src/src/extension.ts):   *)
(* findStringLiteral, removeDuplicateConversions, convertToTemplateLiterals *)
(* and the onDidChangeTextDocument handler registered by activate.         *)
(*                                                                         *)
(* Columns and line numbers are 0-based as in the source; a line of text   *)
(* is a sequence of one-character strings and At(lineText, i) is the       *)
(* source's lineText[i].                                                   *)
(***************************************************************************)
EXTENDS Integers, Sequences, FiniteSets, TLC

VARIABLES
    pc,                 \* position of the operation under way
    lineText,           \* findStringLiteral: argument lineText
    cursorPos,          \* findStringLiteral: argument cursorPos
    stringInfo,         \* findStringLiteral: returned value
    input,              \* removeDuplicateConversions: argument conversions
    output,             \* removeDuplicateConversions: returned list
    output2,            \* removeDuplicateConversions applied to its own result
    document,           \* editor.document: the lines of the active document
    selections,         \* editor.selections: the active position of each cursor
    conversions,        \* convertToTemplateLiterals: local conversions
    uniqueConversions,  \* convertToTemplateLiterals: local uniqueConversions
    editState,          \* editor.edit: "none", "pending", "applied", "failed"
    message,            \* count shown by showInformationMessage (0: none shown)
    activeEditor,       \* vscode.window.activeTextEditor: "none" or a document id
    event,              \* the TextDocumentChangeEvent delivered to the handler
    convertCalls,       \* calls of convertToTemplateLiterals made by the handler for event
    thrown,             \* the handler ended its run for event with an uncaught exception
    subscribed          \* activate has registered the handler

vars == <<pc, lineText, cursorPos, stringInfo, input, output, output2, document,
          selections, conversions, uniqueConversions, editState, message,
          activeEditor, event, convertCalls, thrown, subscribed>>

findVars == <<lineText, cursorPos, stringInfo>>
dedupeVars == <<input, output, output2>>
editorVars == <<document, selections, conversions, uniqueConversions, editState, message>>
eventVars == <<activeEditor, event, convertCalls, thrown>>

-----------------------------------------------------------------------------
(* Characters *)

SQ == "'"
DQ == "\""
BS == "\\"
\* the backtick written by the edit, named by a word
BT == "BACKTICK"
Plain == "a"

QuoteChars == {DQ, SQ}

(* Bounds *)
MaxLen == 7         \* longest line given to findStringLiteral
MaxConv == 3        \* longest list given to removeDuplicateConversions
MaxDocChars == 5    \* most characters of a document given to convertToTemplateLiterals
MaxLines == 2       \* most lines of a document
MaxTyped == 3       \* longest line of the document before the user types
MaxCursors == 2     \* most cursors given to convertToTemplateLiterals

LinesOver(alphabet, n) == UNION {[1..k -> alphabet] : k \in 0..n}

-----------------------------------------------------------------------------
(* findStringLiteral, src/src/extension.ts:126-181 *)

At(text, i) == text[i + 1]

\* The value standing for the source's null (startPos and endPos keep their
\* initial -1, quoteType its initial '').
Null == [startPos |-> -1, endPos |-> -1, quoteType |-> ""]

\* a variant that reads the whole run of backslashes before column i: escaped when
\* the run is of odd length
IsEscapedRunParity(text, i) ==
    LET run == {n \in 1..i : \A k \in 1..n : At(text, i - k) = BS}
    IN  Cardinality(run) % 2 = 1

\* lines 137 and 164: i > 0 && lineText[i - 1] === '\\'
IsEscaped(text, i) == i > 0 /\ At(text, i - 1) = BS

\* lines 143-146: occurrences of lineText[i] in lineText.substring(0, i)
OpenQuoteCount(text, i) ==
    Cardinality({k \in 0..(i - 1) : At(text, k) = At(text, i)})

\* lines 133-156: the backward loop from index i; the startPos it leaves
RECURSIVE BackwardScan(_, _)
BackwardScan(text, i) ==
    IF i < 0 THEN -1
    ELSE IF At(text, i) \in QuoteChars
         THEN IF IsEscaped(text, i)
              THEN BackwardScan(text, i - 1)
              ELSE IF OpenQuoteCount(text, i) % 2 = 0
                   THEN i
                   ELSE BackwardScan(text, i - 1)
         ELSE BackwardScan(text, i - 1)

\* a variant that takes either quote character as the closing one
MatchesAnyQuote(ch, quoteType) == ch \in QuoteChars

\* line 162: lineText[i] === quoteType
MatchesQuote(ch, quoteType) == ch = quoteType

\* lines 160-171: the forward loop from index i; the endPos it leaves
RECURSIVE ForwardScan(_, _, _)
ForwardScan(text, i, quoteType) ==
    IF i >= Len(text) THEN -1
    ELSE IF MatchesQuote(At(text, i), quoteType)
         THEN IF IsEscaped(text, i)
              THEN ForwardScan(text, i + 1, quoteType)
              ELSE i
         ELSE ForwardScan(text, i + 1, quoteType)

\* lines 126-181
findStringLiteral(text, cursor) ==
    LET startPos == BackwardScan(text, cursor - 1)
        quoteType == IF startPos # -1 THEN At(text, startPos) ELSE ""
        endPos == IF startPos # -1 THEN ForwardScan(text, cursor, quoteType) ELSE -1
    IN  IF startPos # -1 /\ endPos # -1
        THEN [startPos |-> startPos, endPos |-> endPos, quoteType |-> quoteType]
        ELSE Null

-----------------------------------------------------------------------------
(* Defaults of the variables an operation does not use *)

NoFind == lineText = <<>> /\ cursorPos = 0 /\ stringInfo = Null
NoDedupe == input = <<>> /\ output = <<>> /\ output2 = <<>>
NoEditor ==
    /\ document = <<>> /\ selections = <<>> /\ conversions = <<>>
    /\ uniqueConversions = <<>> /\ editState = "none" /\ message = 0
NoEvent ==
    /\ activeEditor = "none" /\ event = [document |-> "none", contentChanges |-> <<>>]
    /\ convertCalls = 0 /\ thrown = FALSE

-----------------------------------------------------------------------------
(* Specification of findStringLiteral: every line over the alphabet of at  *)
(* most MaxLen characters, every cursor column of the line.                *)

FindAlphabet == {SQ, DQ, BS, Plain}

InitFind ==
    /\ pc = "find"
    /\ lineText \in LinesOver(FindAlphabet, MaxLen)
    /\ cursorPos \in 0..Len(lineText)
    /\ stringInfo = Null
    /\ NoDedupe /\ NoEditor /\ NoEvent /\ subscribed = FALSE

FindStringLiteral ==
    /\ pc = "find"
    /\ stringInfo' = findStringLiteral(lineText, cursorPos)
    /\ pc' = "found"
    /\ UNCHANGED <<lineText, cursorPos, dedupeVars, editorVars, eventVars, subscribed>>

NextFind == FindStringLiteral

SpecFind == InitFind /\ [][NextFind]_vars

-----------------------------------------------------------------------------
(* removeDuplicateConversions, src/src/extension.ts:190-208 *)

Digits == <<"0", "1", "2", "3", "4", "5", "6", "7", "8", "9">>

\* the decimal text a template string writes for a non-negative integer
RECURSIVE NumberToString(_)
NumberToString(n) ==
    IF n < 10 THEN <<Digits[n + 1]>>
    ELSE NumberToString(n \div 10) \o <<Digits[(n % 10) + 1]>>

\* a variant of the key that leaves out the "-" between the numbers
KeyWithoutSeparators(conv) ==
    NumberToString(conv.line) \o NumberToString(conv.startPos)
        \o NumberToString(conv.endPos)

\* line 198: the template string of line, startPos and endPos joined by "-"
Key(conv) ==
    NumberToString(conv.line) \o <<"-">> \o NumberToString(conv.startPos)
        \o <<"-">> \o NumberToString(conv.endPos)

\* lines 196-205: the loop from the k-th entry, with the keys seen and the list built
RECURSIVE DedupeLoop(_, _, _, _)
DedupeLoop(convs, k, uniqueKeys, unique) ==
    IF k > Len(convs) THEN unique
    ELSE IF Key(convs[k]) \notin uniqueKeys
         THEN DedupeLoop(convs, k + 1, uniqueKeys \cup {Key(convs[k])},
                         Append(unique, convs[k]))
         ELSE DedupeLoop(convs, k + 1, uniqueKeys, unique)

\* a variant that removes the duplicates from the list in place and steps over
\* the entry that follows each removed one
RECURSIVE SpliceLoop(_, _, _)
SpliceLoop(list, k, uniqueKeys) ==
    IF k > Len(list) THEN list
    ELSE IF Key(list[k]) \notin uniqueKeys
         THEN SpliceLoop(list, k + 1, uniqueKeys \cup {Key(list[k])})
         ELSE SpliceLoop(SubSeq(list, 1, k - 1) \o SubSeq(list, k + 1, Len(list)),
                         k + 1, uniqueKeys)

removeDuplicatesInPlace(convs) == SpliceLoop(convs, 1, {})

\* lines 190-208
removeDuplicateConversions(convs) == DedupeLoop(convs, 1, {}, <<>>)

-----------------------------------------------------------------------------
(* Specification of removeDuplicateConversions: every list of at most      *)
(* MaxConv entries over a few lines and columns, some of several digits so *)
(* that the text of the key matters.                                       *)

LineValues == {1, 11}
StartValues == {1, 11}
EndValues == {12, 112}

ConversionValues ==
    [line : LineValues, startPos : StartValues, endPos : EndValues, quoteType : QuoteChars]

InitDedupe ==
    /\ pc = "dedupe"
    /\ input \in UNION {[1..k -> ConversionValues] : k \in 0..MaxConv}
    /\ output = <<>>
    /\ output2 = <<>>
    /\ NoFind /\ NoEditor /\ NoEvent /\ subscribed = FALSE

RemoveDuplicateConversions ==
    /\ pc = "dedupe"
    /\ output' = removeDuplicateConversions(input)
    /\ pc' = "deduped"
    /\ UNCHANGED <<input, output2, findVars, editorVars, eventVars, subscribed>>

\* the function applied to the list it returned
RemoveDuplicateConversionsAgain ==
    /\ pc = "deduped"
    /\ output2' = removeDuplicateConversions(output)
    /\ pc' = "dedupedTwice"
    /\ UNCHANGED <<input, output, findVars, editorVars, eventVars, subscribed>>

NextDedupe == RemoveDuplicateConversions \/ RemoveDuplicateConversionsAgain

SpecDedupe == InitDedupe /\ [][NextDedupe]_vars

-----------------------------------------------------------------------------
(* convertToTemplateLiterals, src/src/extension.ts:49-118 *)

\* lines 58-79: selections.forEach from the k-th selection on; what it pushes
RECURSIVE CollectConversions(_, _, _)
CollectConversions(doc, sels, k) ==
    IF k > Len(sels) THEN <<>>
    ELSE LET cursorPosition == sels[k]
             info == findStringLiteral(doc[cursorPosition.line + 1], cursorPosition.character)
         IN  (IF info # Null /\ (info.quoteType = DQ \/ info.quoteType = SQ)
              THEN <<[line |-> cursorPosition.line, startPos |-> info.startPos,
                      endPos |-> info.endPos, quoteType |-> info.quoteType]>>
              ELSE <<>>)
             \o CollectConversions(doc, sels, k + 1)

\* lines 89-107: the character at startPos and at endPos of each conversion
\* replaced by a backtick
Replaced(doc, convs) ==
    [l \in 1..Len(doc) |->
        [k \in 1..Len(doc[l]) |->
            IF \E n \in 1..Len(convs) :
                   /\ convs[n].line = l - 1
                   /\ (convs[n].startPos = k - 1 \/ convs[n].endPos = k - 1)
            THEN BT
            ELSE doc[l][k]]]

\* two replacements of one edit touch the same character; the host refuses such
\* an edit
Overlapping(convs) ==
    \E m, n \in 1..Len(convs) :
        /\ m # n
        /\ convs[m].line = convs[n].line
        /\ {convs[m].startPos, convs[m].endPos} \cap {convs[n].startPos, convs[n].endPos} # {}

\* the change event the host raises for an applied edit
EditEvent(convs) ==
    [document |-> "doc",
     contentChanges |->
        [n \in 1..(2 * Len(convs)) |->
            LET conv == convs[(n + 1) \div 2]
            IN  [text |-> <<BT>>, line |-> conv.line,
                 character |-> IF n % 2 = 1 THEN conv.startPos ELSE conv.endPos]]]

\* lines 49-85: the call up to editor.edit
ConvertToTemplateLiterals ==
    /\ pc = "convert"
    /\ conversions' = CollectConversions(document, selections, 1)
    /\ uniqueConversions' = removeDuplicateConversions(conversions')
    /\ editState' = IF Len(uniqueConversions') > 0 THEN "pending" ELSE "none"
    /\ pc' = IF Len(uniqueConversions') > 0 THEN "edit" ELSE "done"
    /\ UNCHANGED <<document, selections, message, findVars, dedupeVars, eventVars,
                   subscribed>>

\* lines 87-116: the edit is applied and its promise resolves with success
EditSucceeds ==
    /\ pc = "edit"
    /\ ~Overlapping(uniqueConversions)
    /\ document' = Replaced(document, uniqueConversions)
    /\ editState' = "applied"
    /\ message' = Len(uniqueConversions)
    /\ IF subscribed
       THEN /\ event' = EditEvent(uniqueConversions)
            /\ convertCalls' = 0
            /\ thrown' = FALSE
            /\ pc' = "event"
       ELSE /\ UNCHANGED <<event, convertCalls, thrown>>
            /\ pc' = "done"
    /\ UNCHANGED <<selections, conversions, uniqueConversions, activeEditor,
                   subscribed, findVars, dedupeVars>>

\* lines 87-116: the edit is not applied; nothing is shown
EditFails ==
    /\ pc = "edit"
    /\ editState' = "failed"
    /\ pc' = IF subscribed THEN "handled" ELSE "done"
    /\ UNCHANGED <<document, selections, conversions, uniqueConversions, message,
                   findVars, dedupeVars, eventVars, subscribed>>

-----------------------------------------------------------------------------
(* Specification of convertToTemplateLiterals called on an editor: every   *)
(* document of at most MaxLines lines and MaxDocChars characters, one or   *)
(* two cursors at different places.                                        *)

ConvertAlphabet == {SQ, DQ, Plain}

RECURSIVE TotalChars(_, _)
TotalChars(doc, l) == IF l > Len(doc) THEN 0 ELSE Len(doc[l]) + TotalChars(doc, l + 1)

Documents(alphabet, lines, chars) ==
    {doc \in UNION {[1..n -> LinesOver(alphabet, chars)] : n \in 1..lines} :
        TotalChars(doc, 1) <= chars}

Positions(doc) ==
    {p \in [line : 0..(Len(doc) - 1), character : 0..MaxDocChars] :
        p.character <= Len(doc[p.line + 1])}

InitConvert ==
    /\ pc = "convert"
    /\ document \in Documents(ConvertAlphabet, MaxLines, MaxDocChars)
    /\ selections \in
         {sels \in UNION {[1..n -> Positions(document)] : n \in 1..MaxCursors} :
             \A m, n \in 1..Len(sels) : m # n => sels[m] # sels[n]}
    /\ conversions = <<>>
    /\ uniqueConversions = <<>>
    /\ editState = "none"
    /\ message = 0
    /\ subscribed = FALSE
    /\ NoFind /\ NoDedupe /\ NoEvent

NextConvert == ConvertToTemplateLiterals \/ EditSucceeds \/ EditFails

SpecConvert == InitConvert /\ [][NextConvert]_vars

-----------------------------------------------------------------------------
(* activate and its onDidChangeTextDocument handler,                       *)
(* src/src/extension.ts:8-42                                               *)

Dollar == "$"
Brace == "{"

\* lines 21-37: the loop over event.contentChanges from the k-th change on; how it
\* ends.  change.range.start.translate(0, -1) at column 0 asks for a Position with
\* character -1, which the Position constructor refuses with an exception; the
\* handler does not catch it.
RECURSIVE HandlerLoop(_, _, _)
HandlerLoop(doc, changes, k) ==
    IF k > Len(changes) THEN "none"
    ELSE IF changes[k].text = <<Brace>>
         THEN IF changes[k].character - 1 < 0
              THEN "throw"
              ELSE IF At(doc[changes[k].line + 1], changes[k].character - 1) = Dollar
                   THEN "convert"
                   ELSE HandlerLoop(doc, changes, k + 1)
         ELSE HandlerLoop(doc, changes, k + 1)

\* lines 12-17, then the loop
HandlerOutcome ==
    IF activeEditor = "none" \/ activeEditor # event.document
    THEN "none"
    ELSE HandlerLoop(document, event.contentChanges, 1)

\* lines 10 and 41: the handler is registered
Activate ==
    /\ pc = "inactive"
    /\ subscribed' = TRUE
    /\ pc' = "idle"
    /\ UNCHANGED <<findVars, dedupeVars, editorVars, eventVars>>

\* the text with t put in at column c
Inserted(text, c, t) == SubSeq(text, 1, c) \o t \o SubSeq(text, c + 1, Len(text))

TypedTexts == {<<Brace>>, <<Plain>>, <<Dollar, Brace>>}

\* the host: the user types or pastes t at every cursor of document "doc"; the
\* document changes and one event carries a change per cursor
TypeText(t) ==
    /\ pc \in {"idle", "handled"}
    /\ \A k \in 1..Len(selections) :
           Len(document[selections[k].line + 1]) + Len(t) <= MaxTyped + 1
    /\ document' =
         [l \in 1..Len(document) |->
            IF \E k \in 1..Len(selections) : selections[k].line = l - 1
            THEN LET k == CHOOSE k \in 1..Len(selections) : selections[k].line = l - 1
                 IN  Inserted(document[l], selections[k].character, t)
            ELSE document[l]]
    /\ selections' =
         [k \in 1..Len(selections) |->
            [line |-> selections[k].line, character |-> selections[k].character + Len(t)]]
    /\ event' =
         [document |-> "doc",
          contentChanges |->
             [k \in 1..Len(selections) |->
                [text |-> t, line |-> selections[k].line,
                 character |-> selections[k].character]]]
    /\ convertCalls' = 0
    /\ thrown' = FALSE
    /\ pc' = "event"
    /\ UNCHANGED <<conversions, uniqueConversions, editState, message, activeEditor,
                   subscribed, findVars, dedupeVars>>

\* the host: a document other than the one of the editor changes
OtherDocumentChanged ==
    /\ pc \in {"idle", "handled"}
    /\ \E c \in 0..1 :
           event' = [document |-> "other",
                     contentChanges |-> <<[text |-> <<Brace>>, line |-> 0, character |-> c]>>]
    /\ convertCalls' = 0
    /\ thrown' = FALSE
    /\ pc' = "event"
    /\ UNCHANGED <<editorVars, activeEditor, subscribed, findVars, dedupeVars>>

\* lines 10-38: the handler runs on event, with the call of
\* convertToTemplateLiterals (lines 49-85) it makes
OnDidChangeTextDocument ==
    /\ pc = "event"
    /\ subscribed
    /\ thrown' = (HandlerOutcome = "throw")
    /\ IF HandlerOutcome = "convert"
       THEN /\ convertCalls' = convertCalls + 1
            /\ conversions' = CollectConversions(document, selections, 1)
            /\ uniqueConversions' = removeDuplicateConversions(conversions')
            /\ editState' = IF Len(uniqueConversions') > 0 THEN "pending" ELSE "none"
            /\ pc' = IF Len(uniqueConversions') > 0 THEN "edit" ELSE "handled"
       ELSE /\ UNCHANGED <<convertCalls, conversions, uniqueConversions, editState>>
            /\ pc' = "handled"
    /\ UNCHANGED <<document, selections, message, activeEditor, event, subscribed,
                   findVars, dedupeVars>>

-----------------------------------------------------------------------------
(* Specification of the activated extension: a document of at most         *)
(* MaxLines lines of at most MaxTyped characters, at most one cursor on a  *)
(* line (the columns of the changes of one event then do not shift one     *)
(* another), an editor on the document or none.                            *)

TypingAlphabet == {SQ, Dollar}

Init ==
    /\ pc = "inactive"
    /\ document \in UNION {[1..n -> LinesOver(TypingAlphabet, MaxTyped)] : n \in 1..MaxLines}
    /\ selections \in
         {sels \in UNION {[1..n -> Positions(document)] : n \in 1..MaxLines} :
             \A m, n \in 1..Len(sels) : m # n => sels[m].line # sels[n].line}
    /\ activeEditor \in {"none", "doc"}
    /\ conversions = <<>>
    /\ uniqueConversions = <<>>
    /\ editState = "none"
    /\ message = 0
    /\ event = [document |-> "none", contentChanges |-> <<>>]
    /\ convertCalls = 0
    /\ thrown = FALSE
    /\ subscribed = FALSE
    /\ NoFind /\ NoDedupe

Next ==
    \/ Activate
    \/ \E t \in TypedTexts : TypeText(t)
    \/ OtherDocumentChanged
    \/ OnDidChangeTextDocument
    \/ EditSucceeds
    \/ EditFails

Spec == Init /\ [][Next]_vars

-----------------------------------------------------------------------------
(* The literals of a line, read left to right as a tokenizer reads them:   *)
(* outside a literal a quote character opens one; inside it a backslash    *)
(* takes the next character with it and the same quote character closes.   *)
(* Vocabulary of the properties below, not a model of the code.            *)

RECURSIVE LexFrom(_, _, _)
LexFrom(text, i, open) ==
    IF i >= Len(text) THEN {}
    ELSE IF open = -1
         THEN IF At(text, i) \in QuoteChars
              THEN LexFrom(text, i + 1, i)
              ELSE LexFrom(text, i + 1, -1)
         ELSE IF At(text, i) = BS
              THEN LexFrom(text, i + 2, open)
              ELSE IF At(text, i) = At(text, open)
                   THEN {[startPos |-> open, endPos |-> i, quoteType |-> At(text, open)]}
                            \cup LexFrom(text, i + 1, -1)
                   ELSE LexFrom(text, i + 1, open)

Literals(text) == LexFrom(text, 0, -1)

\* the cursor column stands after the opening quote and not past the closing one
Inside(cursor, lit) == lit.startPos < cursor /\ cursor <= lit.endPos

\* every quote character of the line opens, closes or lies within a literal, and
\* every backslash lies within a literal
RECURSIVE Covered(_, _)
Covered(text, i) ==
    \/ i >= Len(text)
    \/ /\ \/ \E lit \in Literals(text) : lit.startPos <= i /\ i <= lit.endPos
          \/ At(text, i) \notin (QuoteChars \cup {BS})
       /\ Covered(text, i + 1)

WellFormedLine(text) == Covered(text, 0)

-----------------------------------------------------------------------------
(* Properties of findStringLiteral *)

\* C1: on a well-formed line, a cursor strictly inside a literal gets exactly the
\* columns of the opening and closing quote of that literal, with its quote type.
C1_LocatesEnclosingLiteral ==
    (pc = "found" /\ WellFormedLine(lineText)) =>
        \A lit \in Literals(lineText) :
            Inside(cursorPos, lit) => stringInfo = lit

\* C2: on a well-formed line, a cursor outside every literal gets null.
C2_NullOutsideLiterals ==
    (/\ pc = "found"
     /\ WellFormedLine(lineText)
     /\ \A lit \in Literals(lineText) : ~Inside(cursorPos, lit))
        => stringInfo = Null

\* C7: every non-null result has startPos < endPos and the characters of the line
\* at startPos and at endPos are both the returned quoteType.
C7_ResultInvariant ==
    (pc = "found" /\ stringInfo # Null) =>
        /\ 0 <= stringInfo.startPos
        /\ stringInfo.startPos < stringInfo.endPos
        /\ stringInfo.endPos < Len(lineText)
        /\ At(lineText, stringInfo.startPos) = stringInfo.quoteType
        /\ At(lineText, stringInfo.endPos) = stringInfo.quoteType
        /\ stringInfo.quoteType \in QuoteChars

\* a non-null result whose literal holds a backslash-escaped quote of its own kind
C7_Witness ==
    /\ pc = "found"
    /\ stringInfo # Null
    /\ \E k \in (stringInfo.startPos + 2)..(stringInfo.endPos - 1) :
           At(lineText, k) = stringInfo.quoteType /\ At(lineText, k - 1) = BS

\* The reference scan of C8.
RefStarts(text, cursor) ==
    {i \in 0..(cursor - 1) :
        /\ At(text, i) \in QuoteChars
        /\ (i > 0 => At(text, i - 1) # BS)
        /\ Len(SelectSeq(SubSeq(text, 1, i), LAMBDA ch : ch = At(text, i))) % 2 = 0}

RefEnds(text, cursor, quote) ==
    {j \in cursor..(Len(text) - 1) :
        At(text, j) = quote /\ (j > 0 => At(text, j - 1) # BS)}

Greatest(S) == CHOOSE x \in S : \A y \in S : y <= x
Smallest(S) == CHOOSE x \in S : \A y \in S : x <= y

RefResult(text, cursor) ==
    IF RefStarts(text, cursor) = {} THEN Null
    ELSE LET i == Greatest(RefStarts(text, cursor))
             ends == RefEnds(text, cursor, At(text, i))
         IN  IF ends = {} THEN Null
             ELSE [startPos |-> i, endPos |-> Smallest(ends), quoteType |-> At(text, i)]

\* C8: the result equals the reference scan: the greatest unescaped quote before the
\* cursor with an even raw count of the same character before it, the smallest
\* unescaped quote of that kind at or after the cursor, null when either is missing;
\* a quote after two backslashes counts as escaped.
C8_EqualsReferenceScan ==
    pc = "found" => stringInfo = RefResult(lineText, cursorPos)

\* a result found after the backward scan passed over a quote that follows two
\* backslashes
C8_Witness ==
    /\ pc = "found"
    /\ stringInfo # Null
    /\ \E i \in (stringInfo.startPos + 3)..(cursorPos - 1) :
           /\ At(lineText, i) \in QuoteChars
           /\ At(lineText, i - 1) = BS
           /\ At(lineText, i - 2) = BS

\* the line without its character at column p, and a result of that line carried
\* back to the columns of the line it came from
RemoveAt(text, p) == SubSeq(text, 1, p) \o SubSeq(text, p + 2, Len(text))

Unshift(col, p) == IF col >= p THEN col + 1 ELSE col

CarriedBack(r, p) ==
    IF r = Null THEN Null
    ELSE [startPos |-> Unshift(r.startPos, p), endPos |-> Unshift(r.endPos, p),
          quoteType |-> r.quoteType]

\* C9: for a cursor inside a literal, taking away an unescaped quote character of
\* the other kind that stands between the opening and the closing quote leaves the
\* result on the same two quote characters.
C9_OtherQuotesInvisible ==
    (pc = "found" /\ WellFormedLine(lineText)) =>
        \A lit \in Literals(lineText) :
            Inside(cursorPos, lit) =>
                \A p \in (lit.startPos + 1)..(lit.endPos - 1) :
                    (/\ At(lineText, p) \in QuoteChars \ {lit.quoteType}
                     /\ At(lineText, p - 1) # BS)
                    => stringInfo =
                         CarriedBack(findStringLiteral(RemoveAt(lineText, p),
                                        IF p < cursorPos THEN cursorPos - 1 ELSE cursorPos), p)

-----------------------------------------------------------------------------
(* Properties of removeDuplicateConversions *)

Triple(conv) == <<conv.line, conv.startPos, conv.endPos>>

FirstOccurrences(list) ==
    {k \in 1..Len(list) : \A j \in 1..(k - 1) : Triple(list[j]) # Triple(list[k])}

RECURSIVE Restrict(_, _, _)
Restrict(list, keep, k) ==
    IF k > Len(list) THEN <<>>
    ELSE (IF k \in keep THEN <<list[k]>> ELSE <<>>) \o Restrict(list, keep, k + 1)

\* C5: the result is the input restricted to the first occurrence of each
\* (line, startPos, endPos) triple, in input order: one entry per distinct triple,
\* entries differing only in quoteType collapse to the first, empty gives empty.
C5_FirstOccurrencePerTriple ==
    pc = "deduped" =>
        /\ output = Restrict(input, FirstOccurrences(input), 1)
        /\ Len(output) = Cardinality({Triple(input[k]) : k \in 1..Len(input)})
        /\ \A j, k \in 1..Len(output) : j # k => Triple(output[j]) # Triple(output[k])
        /\ (input = <<>> => output = <<>>)

\* three entries, the third repeating the triple of the first with the other
\* quoteType, reduced to the first two
C5_Witness ==
    /\ pc = "deduped"
    /\ Len(input) = 3
    /\ Triple(input[1]) = Triple(input[3])
    /\ input[1].quoteType # input[3].quoteType
    /\ Triple(input[1]) # Triple(input[2])
    /\ output = <<input[1], input[2]>>

\* C6: removeDuplicateConversions applied to its own result returns that result,
\* entry by entry and in the same order.
C6_Idempotent ==
    pc = "dedupedTwice" => output2 = output

\* the second application ran on a result shorter than the input that still holds
\* several entries
C6_Witness ==
    /\ pc = "dedupedTwice"
    /\ Len(output) >= 2
    /\ Len(output) < Len(input)
    /\ output2 = output

-----------------------------------------------------------------------------
(* Properties of convertToTemplateLiterals *)

LineOf(sel) == document[sel.line + 1]

\* C3: two or more cursors inside one literal of a well-formed line give a list of
\* exactly one conversion.
C3_OneEntryPerLiteral ==
    (/\ pc \in {"edit", "done"}
     /\ Len(selections) >= 2
     /\ WellFormedLine(LineOf(selections[1]))
     /\ \E lit \in Literals(LineOf(selections[1])) :
            \A k \in 1..Len(selections) :
                /\ selections[k].line = selections[1].line
                /\ Inside(selections[k].character, lit))
        => Len(uniqueConversions) = 1

\* C4: of two cursors on well-formed lines, one inside a literal and the other
\* outside every literal of its line, exactly the literal of the one inside is
\* converted.
C4_OnlyTheCursorInsideCounts ==
    (/\ pc \in {"edit", "done"}
     /\ Len(selections) = 2)
        => \A m, n \in 1..2 :
            \A lit \in Literals(LineOf(selections[m])) :
               (/\ m # n
                /\ WellFormedLine(LineOf(selections[m]))
                /\ WellFormedLine(LineOf(selections[n]))
                /\ Inside(selections[m].character, lit)
                /\ \A other \in Literals(LineOf(selections[n])) :
                       ~Inside(selections[n].character, other))
               => uniqueConversions =
                    <<[line |-> selections[m].line, startPos |-> lit.startPos,
                       endPos |-> lit.endPos, quoteType |-> lit.quoteType]>>

-----------------------------------------------------------------------------
(* Properties of the onDidChangeTextDocument handler *)

\* the event is for the document of the active editor and one of its changes put
\* in exactly "{" right after a "$"
Triggering ==
    /\ activeEditor # "none"
    /\ activeEditor = event.document
    /\ \E k \in 1..Len(event.contentChanges) :
           LET change == event.contentChanges[k]
           IN  /\ change.text = <<Brace>>
               /\ change.character >= 1
               /\ At(document[change.line + 1], change.character - 1) = Dollar

\* C10: the handler calls convertToTemplateLiterals at most once for an event, and
\* calls it exactly when the event is for the document of the active editor and one
\* of its changes put in exactly "{" right after a "$".
C10_ConvertsExactlyOnTrigger ==
    pc \in {"handled", "edit"} =>
        /\ convertCalls <= 1
        /\ (convertCalls = 1 <=> Triggering)

====
